---- MODULE Spec2Model ----
(***************************************************************************)
(* A model of src/main.py: the TradingView data API.                       *)
(*                                                                         *)
(* Request handlers run on worker threads (FastAPI runs "def" endpoints in *)
(* a thread pool).  Each thread is a small program counter machine over    *)
(* the statements of the handler it executes.  The module level variable   *)
(* last_request_time is shared by all threads; everything else is local to *)
(* a thread (a function of the thread).                                    *)
(*                                                                         *)
(* Time is in milliseconds.  The real clock `now` advances by Quantum in   *)
(* the Tick action, and any number of ticks may pass between two           *)
(* statements.  time.time() reads `now`; time.sleep(d) returns at some     *)
(* instant at least d after it was called.                                 *)
(*                                                                         *)
(* Prices are integers (price ticks); a quotient of floats is kept as an   *)
(* exact fraction [num, den].                                              *)
(***************************************************************************)
EXTENDS Integers, Sequences, FiniteSets, TLC

(***************************************************************************)
(* Bounds of the model.                                                    *)
(***************************************************************************)
\* the clock advances in steps of Quantum milliseconds
Quantum == 250
\* the clock stops after MaxTicks steps (Spec)
MaxTicks == 12
\* the clock stops after MaxTicksFetch steps (SpecFetch)
MaxTicksFetch == 26
\* the clock stops after MaxTicksMulti steps (SpecMulti)
MaxTicksMulti == 30
\* the clock stops after MaxTicksConc steps (SpecConc)
MaxTicksConc == 4
\* number of worker threads of SpecConc
NumThreads == 2
\* the highest price of a candle of SpecLevels
MaxPrice == 3
\* SpecLevels has the tables of 0..MaxShortFrame candles
MaxShortFrame == 8
\* and those of RecentWindow - WindowSlack .. RecentWindow + WindowSlack
WindowSlack == 2
\* the clock stops after MaxTicksIntervals steps (SpecIntervals)
MaxTicksIntervals == 2
\* the clock of SpecCount stops after MaxTicksCount steps
MaxTicksCount == 88

(***************************************************************************)
(* Program constants.                                                      *)
(***************************************************************************)
\* MIN_REQUEST_INTERVAL = 0.5 (seconds), in milliseconds
MIN_REQUEST_INTERVAL == 500
\* max_retries=3, the default of get_analysis_with_retry
max_retries == 3
\* wait_time = (attempt + 1) * 2 (seconds): the factor, in milliseconds
BackoffStep == 2000
\* time.sleep(1) between two timeframes, in milliseconds
TimeframePause == 1000

Threads == 1..NumThreads
\* the thread of the sequential specifications
MainThread == CHOOSE t \in Threads : \A u \in Threads : t <= u

\* the clock value at start-up: time.time() is far above MIN_REQUEST_INTERVAL
StartTime == 2 * MIN_REQUEST_INTERVAL

None == "None"

(***************************************************************************)
(* The live-indicator provider (tradingview_ta) and its answers.           *)
(***************************************************************************)
\* what handler.get_analysis() may return
Snapshots == {"snapA", "snapB"}
\* the messages of the exceptions handler.get_analysis() may raise
ErrorMessages == {"errA", "errB"}

NoException == [type |-> None, status |-> 0, detail |-> <<>>]
Exception(msg) == [type |-> "Exception", status |-> 0, detail |-> <<msg>>]
HTTPException(status_code, detail) ==
    [type |-> "HTTPException", status |-> status_code, detail |-> detail]

StatusText(status) ==
    CASE status = 404 -> "404"
      [] status = 500 -> "500"
      [] status = 501 -> "501"
      [] OTHER -> "0"

\* str(e): the message of a plain exception; "<status>: <detail>" for an
\* HTTPException
Str(e) ==
    IF e.type = "HTTPException" THEN <<StatusText(e.status)>> \o e.detail
    ELSE e.detail

(***************************************************************************)
(* Timeframe codes and the interval tables.                                *)
(***************************************************************************)
RecognizedCodes == {"1M", "5M", "15M", "1H", "4H", "1D"}
\* codes a request may carry: the recognized ones and others
TimeframeCodes == RecognizedCodes \cup {"2H", "1W"}

\* interval_map.get(request.interval, Interval.INTERVAL_1_HOUR)
\* (the values are tradingview_ta's Interval constants)
interval_map(code) ==
    CASE code = "1M" -> "INTERVAL_1_MINUTE"
      [] code = "5M" -> "INTERVAL_5_MINUTES"
      [] code = "15M" -> "INTERVAL_15_MINUTES"
      [] code = "1H" -> "INTERVAL_1_HOUR"
      [] code = "4H" -> "INTERVAL_4_HOURS"
      [] code = "1D" -> "INTERVAL_1_DAY"
      [] OTHER -> "INTERVAL_1_HOUR"

SymbolRequest(symbol, interval) ==
    [symbol |-> symbol, exchange |-> "OANDA", screener |-> "forex",
     interval |-> interval, lookback_days |-> 7]

\* the requests a client sends
Symbols == {"EURUSD"}
RequestIntervals == {"1H", "4H", "2H"}
Requests == {SymbolRequest(s, c) : s \in Symbols, c \in RequestIntervals}

NoRequest == SymbolRequest(None, None)

TA_Handler(symbol, exchange, screener, interval) ==
    [symbol |-> symbol, exchange |-> exchange, screener |-> screener,
     interval |-> interval]

NoHandler == TA_Handler(None, None, None, None)

(***************************************************************************)
(* The historical provider (yfinance) and the price-action levels.         *)
(***************************************************************************)
\* symbol_map.get(request.symbol, f"{request.symbol}=X"), lines 174-192
symbol_map(symbol) ==
    CASE symbol = "EURUSD" -> <<"EURUSD=X">>
      [] symbol = "GBPUSD" -> <<"GBPUSD=X">>
      [] symbol = "USDJPY" -> <<"USDJPY=X">>
      [] symbol = "AUDUSD" -> <<"AUDUSD=X">>
      [] symbol = "USDCAD" -> <<"USDCAD=X">>
      [] symbol = "USDCHF" -> <<"USDCHF=X">>
      [] symbol = "NZDUSD" -> <<"NZDUSD=X">>
      [] symbol = "GBPJPY" -> <<"GBPJPY=X">>
      [] symbol = "EURJPY" -> <<"EURJPY=X">>
      [] symbol = "XAUUSD" -> <<"GC=F">>
      [] symbol = "XAGUSD" -> <<"SI=F">>
      [] symbol = "BTCUSD" -> <<"BTC-USD">>
      [] symbol = "ETHUSD" -> <<"ETH-USD">>
      [] symbol = "BTCUSDT" -> <<"BTC-USD">>
      [] symbol = "ETHUSDT" -> <<"ETH-USD">>
      [] OTHER -> <<symbol, "=X">>

\* the historical provider's table with the daily interval as its default
\* (sensitivity check of C11)
yf_interval_map_default_day(code) ==
    CASE code = "1M" -> "1m"
      [] code = "5M" -> "5m"
      [] code = "15M" -> "15m"
      [] code = "1H" -> "1h"
      [] code = "4H" -> "4h"
      [] code = "1D" -> "1d"
      [] OTHER -> "1d"

\* the historical provider's interval table, lines 195-204
yf_interval_map(code) ==
    CASE code = "1M" -> "1m"
      [] code = "5M" -> "5m"
      [] code = "15M" -> "15m"
      [] code = "1H" -> "1h"
      [] code = "4H" -> "4h"
      [] code = "1D" -> "1d"
      [] OTHER -> "1h"

\* interval_tv_map.get(request.interval, Interval.INTERVAL_1_HOUR), 245-258
interval_tv_map(code) ==
    CASE code = "1M" -> "INTERVAL_1_MINUTE"
      [] code = "5M" -> "INTERVAL_5_MINUTES"
      [] code = "15M" -> "INTERVAL_15_MINUTES"
      [] code = "1H" -> "INTERVAL_1_HOUR"
      [] code = "4H" -> "INTERVAL_4_HOURS"
      [] code = "1D" -> "INTERVAL_1_DAY"
      [] OTHER -> "INTERVAL_1_HOUR"

Ticker(symbol, period, interval) ==
    [symbol |-> symbol, period |-> period, interval |-> interval]

NoTicker == Ticker(<<>>, 0, None)

\* one row of the provider's table
Candle(o, h, l, c) == [Open |-> o, High |-> h, Low |-> l, Close |-> c]

\* df[column]
Column(frame, column) == [k \in 1..Len(frame) |-> frame[k][column]]

\* the reductions of a series over its positions lo..hi, halving the span
RECURSIVE MaxFrom(_, _, _)
MaxFrom(series, lo, hi) ==
    IF lo = hi THEN series[lo]
    ELSE LET mid == (lo + hi) \div 2
             left == MaxFrom(series, lo, mid)
             right == MaxFrom(series, mid + 1, hi)
         IN  IF right > left THEN right ELSE left

RECURSIVE MinFrom(_, _, _)
MinFrom(series, lo, hi) ==
    IF lo = hi THEN series[lo]
    ELSE LET mid == (lo + hi) \div 2
             left == MinFrom(series, lo, mid)
             right == MinFrom(series, mid + 1, hi)
         IN  IF right < left THEN right ELSE left

RECURSIVE SumFrom(_, _, _)
SumFrom(series, lo, hi) ==
    IF lo > hi THEN 0
    ELSE IF lo = hi THEN series[lo]
    ELSE LET mid == (lo + hi) \div 2
         IN  SumFrom(series, lo, mid) + SumFrom(series, mid + 1, hi)

\* the last value of the series for its minimum (sensitivity check of C13)
SeriesMin_last(series) == series[Len(series)]

\* Series.max(), Series.min() of a non-empty series
SeriesMax(series) == MaxFrom(series, 1, Len(series))
SeriesMin(series) == MinFrom(series, 1, Len(series))

\* a quotient of two floats, exact; den = 0 stands for ZeroDivisionError
TrueDiv(a, b) == [num |-> a, den |-> b]
Times(q, n) == [num |-> q.num * n, den |-> q.den]
Whole(n) == [num |-> n, den |-> 1]

\* Series.mean()
SeriesMean(series) == TrueDiv(SumFrom(series, 1, Len(series)), Len(series))

\* df['High'].subtract(df['Low'])
Subtract(a, b) == [k \in 1..Len(a) |-> a[k] - b[k]]

\* the number of candles of the "recent 3 days", line 227
RecentWindow == 72

\* df.tail(n)
tail(frame, n) ==
    IF Len(frame) <= n THEN frame
    ELSE SubSeq(frame, Len(frame) - n + 1, Len(frame))

\* the whole table for the recent window (sensitivity check of C18)
recent_df_whole(frame) == frame

\* line 227: recent_df = df.tail(72) if len(df) >= 72 else df
recent_df(frame) ==
    IF Len(frame) >= RecentWindow THEN tail(frame, RecentWindow) ELSE frame

\* period_high read off the 'Low' column (sensitivity check of C8)
period_high_of_lows(frame) == SeriesMax(Column(frame, "Low"))
\* period_low read off the 'High' column (sensitivity check of C10)
period_low_of_highs(frame) == SeriesMin(Column(frame, "High"))

\* lines 221-224
period_high(frame) == SeriesMax(Column(frame, "High"))
period_low(frame) == SeriesMin(Column(frame, "Low"))
current_price(frame) == frame[Len(frame)].Close

\* lines 228-230
recent_high(frame) == SeriesMax(Column(recent_df(frame), "High"))
recent_low(frame) == SeriesMin(Column(recent_df(frame), "Low"))
avg_range(frame) == SeriesMean(Subtract(Column(frame, "High"), Column(frame, "Low")))

\* the locals of lines 221-230
Levels(frame) ==
    [period_high |-> period_high(frame),
     period_low |-> period_low(frame),
     period_range |-> period_high(frame) - period_low(frame),
     current_price |-> current_price(frame),
     recent_high |-> recent_high(frame),
     recent_low |-> recent_low(frame),
     avg_range |-> avg_range(frame)]

NoLevels ==
    [period_high |-> 0, period_low |-> 0, period_range |-> 0,
     current_price |-> 0, recent_high |-> 0, recent_low |-> 0,
     avg_range |-> Whole(0)]

\* line 278 without its test of period_range (sensitivity check of C9)
current_position_always_divides(price, low, range) ==
    Times(TrueDiv(price - low, range), 100)

\* line 278
current_position_in_range(price, low, range) ==
    IF range > 0 THEN Times(TrueDiv(price - low, range), 100) ELSE Whole(50)

\* "price_action_levels" of the output, lines 271-279
price_action_levels(lv) ==
    [period_high |-> lv.period_high,
     period_low |-> lv.period_low,
     period_range |-> lv.period_range,
     recent_high_3d |-> lv.recent_high,
     recent_low_3d |-> lv.recent_low,
     avg_candle_range |-> lv.avg_range,
     current_position_in_range |->
         current_position_in_range(lv.current_price, lv.period_low,
                                   lv.period_range)]

VARIABLES
    now,                 \* the real time
    last_request_time,   \* the global of src/main.py
    lastDispatch,        \* instant of the latest handler.get_analysis() call
    pc,                  \* per thread: the statement it is at
    mode,                \* per thread: the endpoint it serves
    request,             \* per thread: the SymbolRequest object
    handler,             \* per thread: the TA_Handler
    attempt,             \* per thread: loop variable of get_analysis_with_retry
    wake,                \* per thread: the earliest instant its sleep returns
    analysis,            \* per thread: value returned by get_analysis_with_retry
    exc,                 \* per thread: the exception in flight
    served,              \* per thread: outcomes of the attempts of this fetch
    waits,               \* per thread: backoff waits of this fetch, in order
    data,                \* per thread: what get_trading_data returned
    i,                   \* per thread: loop index of get_multi_timeframe
    result,              \* per thread: the dict get_multi_timeframe fills
    ticker,              \* per thread: the call made to the historical provider
    df,                  \* per thread: the candles the historical provider gave
    levels,              \* per thread: the locals of lines 221-230
    fetches,             \* per thread: how each fetch of this request ended
    log,                 \* per thread: the provider calls, fetch ends and
                         \* pauses of this request, in order
    entry,               \* per thread: the request as the endpoint received it
    response             \* per thread: what the endpoint answered

vars == <<now, last_request_time, lastDispatch, pc, mode, request, handler,
          attempt, wake, analysis, exc, served, waits, data, i, result, ticker,
          df, levels, fetches, log, entry, response>>

\* the variables of the fetcher's caller that a fetch leaves alone
callerVars == <<mode, request, handler, data, i, result, ticker, df, levels,
                response>>

NoResponse == [success |-> FALSE, status |-> 0, data |-> <<>>, detail |-> <<>>]
Success(d) == [success |-> TRUE, status |-> 200, data |-> d, detail |-> <<>>]
Failure(e) == [success |-> FALSE, status |-> e.status, data |-> <<>>,
               detail |-> e.detail]

\* an entry of the log: a call of a provider ("dispatch", "history"), the
\* end of a fetch ("fetched", "failed") or a pause between timeframes
Event(event, timeframe, ms) == [event |-> event, timeframe |-> timeframe, ms |-> ms]

Init ==
    /\ now = StartTime
    /\ last_request_time = 0
    /\ lastDispatch = -1
    /\ pc = [t \in Threads |-> "idle"]
    /\ mode = [t \in Threads |-> None]
    /\ request = [t \in Threads |-> NoRequest]
    /\ handler = [t \in Threads |-> NoHandler]
    /\ attempt = [t \in Threads |-> 0]
    /\ wake = [t \in Threads |-> 0]
    /\ analysis = [t \in Threads |-> None]
    /\ exc = [t \in Threads |-> NoException]
    /\ served = [t \in Threads |-> <<>>]
    /\ waits = [t \in Threads |-> <<>>]
    /\ data = [t \in Threads |-> NoResponse]
    /\ i = [t \in Threads |-> 0]
    /\ result = [t \in Threads |-> <<>>]
    /\ ticker = [t \in Threads |-> NoTicker]
    /\ df = [t \in Threads |-> <<>>]
    /\ levels = [t \in Threads |-> NoLevels]
    /\ fetches = [t \in Threads |-> <<>>]
    /\ log = [t \in Threads |-> <<>>]
    /\ entry = [t \in Threads |-> NoRequest]
    /\ response = [t \in Threads |-> NoResponse]

(***************************************************************************)
(* The clock.                                                              *)
(***************************************************************************)
Tick(limit) ==
    /\ now < limit
    /\ now' = now + Quantum
    /\ UNCHANGED <<last_request_time, lastDispatch, pc, attempt, wake, analysis,
                   exc, served, waits, callerVars>>
    /\ UNCHANGED <<fetches, log, entry>>

\* time passes until the sleep of thread t is due: time.sleep returns on time
Leap(t, limit) ==
    /\ pc[t] \in {"rate_limit_sleep", "backoff", "multi_sleep"}
    /\ now < wake[t]
    /\ wake[t] <= limit
    /\ now' = wake[t]
    /\ UNCHANGED <<last_request_time, lastDispatch, pc, attempt, wake, analysis,
                   exc, served, waits, callerVars>>
    /\ UNCHANGED <<fetches, log, entry>>

(***************************************************************************)
(* rate_limit(), lines 33-42.                                              *)
(***************************************************************************)
\* RateLimitRead without the sleep of lines 38-40 (sensitivity check of C16)
RateLimitRead_NoSleep(t) ==
    /\ pc[t] = "rate_limit"
    /\ pc' = [pc EXCEPT ![t] = "rate_limit_write"]
    /\ UNCHANGED <<now, last_request_time, lastDispatch, attempt, wake,
                   analysis, exc, served, waits, callerVars>>
    /\ UNCHANGED <<fetches, log, entry>>

\* lines 35-40: read the clock, compare, and call time.sleep(sleep_time)
RateLimitRead(t) ==
    /\ pc[t] = "rate_limit"
    /\ LET current_time == now
           time_since_last == current_time - last_request_time
       IN  IF time_since_last < MIN_REQUEST_INTERVAL
           THEN LET sleep_time == MIN_REQUEST_INTERVAL - time_since_last
                IN  /\ wake' = [wake EXCEPT ![t] = now + sleep_time]
                    /\ pc' = [pc EXCEPT ![t] = "rate_limit_sleep"]
           ELSE /\ pc' = [pc EXCEPT ![t] = "rate_limit_write"]
                /\ UNCHANGED wake
    /\ UNCHANGED <<now, last_request_time, lastDispatch, attempt, analysis, exc,
                   served, waits, callerVars>>
    /\ UNCHANGED <<fetches, log, entry>>

\* line 40: time.sleep(sleep_time) returns, no earlier than asked
RateLimitWake(t) ==
    /\ pc[t] = "rate_limit_sleep"
    /\ now >= wake[t]
    /\ wake' = [wake EXCEPT ![t] = 0]
    /\ pc' = [pc EXCEPT ![t] = "rate_limit_write"]
    /\ UNCHANGED <<now, last_request_time, lastDispatch, attempt, analysis, exc,
                   served, waits, callerVars>>
    /\ UNCHANGED <<fetches, log, entry>>

\* line 42: last_request_time = time.time()
RateLimitWrite(t) ==
    /\ pc[t] = "rate_limit_write"
    /\ last_request_time' = now
    /\ pc' = [pc EXCEPT ![t] = "dispatch"]
    /\ UNCHANGED <<now, lastDispatch, attempt, wake, analysis, exc, served,
                   waits, callerVars>>
    /\ UNCHANGED <<fetches, log, entry>>

(***************************************************************************)
(* get_analysis_with_retry(handler, max_retries=3), lines 44-56.           *)
(***************************************************************************)
\* the call itself: the loop starts with attempt = 0
get_analysis_with_retry(t) ==
    /\ attempt' = [attempt EXCEPT ![t] = 0]
    /\ analysis' = [analysis EXCEPT ![t] = None]
    /\ exc' = [exc EXCEPT ![t] = NoException]
    /\ served' = [served EXCEPT ![t] = <<>>]
    /\ waits' = [waits EXCEPT ![t] = <<>>]
    /\ pc' = [pc EXCEPT ![t] = "rate_limit"]

\* line 48: handler.get_analysis() is invoked
Dispatch(t) ==
    /\ pc[t] = "dispatch"
    /\ lastDispatch' = now
    /\ pc' = [pc EXCEPT ![t] = "in_flight"]
    /\ UNCHANGED <<now, last_request_time, attempt, wake, analysis, exc, served,
                   waits, callerVars>>
    /\ log' = [log EXCEPT ![t] =
           Append(@, Event("dispatch", handler[t].interval, 0))]
    /\ UNCHANGED <<fetches, entry>>

\* GetAnalysisReturns without the return: the snapshot is kept and the loop
\* goes on while attempts remain (sensitivity check of C4)
GetAnalysisReturns_NoReturn(t, snapshot) ==
    /\ pc[t] = "in_flight"
    /\ analysis' = [analysis EXCEPT ![t] = snapshot]
    /\ served' = [served EXCEPT ![t] = Append(@, [ok |-> TRUE, value |-> snapshot])]
    /\ IF attempt[t] < max_retries - 1
       THEN /\ attempt' = [attempt EXCEPT ![t] = @ + 1]
            /\ pc' = [pc EXCEPT ![t] = "rate_limit"]
       ELSE /\ pc' = [pc EXCEPT ![t] = "fetched"]
            /\ UNCHANGED attempt
    /\ UNCHANGED <<now, last_request_time, lastDispatch, wake, exc, waits,
                   callerVars, fetches, log, entry>>

\* lines 48-49: the provider answers and the snapshot is returned
GetAnalysisReturns(t, snapshot) ==
    /\ pc[t] = "in_flight"
    /\ analysis' = [analysis EXCEPT ![t] = snapshot]
    /\ served' = [served EXCEPT ![t] = Append(@, [ok |-> TRUE, value |-> snapshot])]
    /\ pc' = [pc EXCEPT ![t] = "fetched"]
    /\ UNCHANGED <<now, last_request_time, lastDispatch, attempt, wake, exc,
                   waits, callerVars>>
    /\ fetches' = [fetches EXCEPT ![t] =
           Append(@, [timeframe |-> request[t].interval, ok |-> TRUE])]
    /\ log' = [log EXCEPT ![t] =
           Append(@, Event("fetched", request[t].interval, 0))]
    /\ UNCHANGED entry

\* wait_time without the attempt number: the same wait after every failure
\* (sensitivity check of C3)
wait_time_constant(a) == BackoffStep

\* the wait after a failed attempt, line 53
wait_time(a) == (a + 1) * BackoffStep

\* GetAnalysisRaises with the test of line 52 always true: a wait after the
\* last failure too, and no raise (sensitivity check of C5)
GetAnalysisRaises_AlwaysWaits(t, msg) ==
    /\ pc[t] = "in_flight"
    /\ exc' = [exc EXCEPT ![t] = Exception(msg)]
    /\ served' = [served EXCEPT ![t] = Append(@, [ok |-> FALSE, value |-> msg])]
    /\ wake' = [wake EXCEPT ![t] = now + (attempt[t] + 1) * BackoffStep]
    /\ waits' = [waits EXCEPT ![t] = Append(@, (attempt[t] + 1) * BackoffStep)]
    /\ pc' = [pc EXCEPT ![t] = "backoff"]
    /\ UNCHANGED <<now, last_request_time, lastDispatch, attempt, analysis,
                   callerVars, fetches, log, entry>>

\* lines 48, 50-56: the provider raises; back off and retry, or raise e
GetAnalysisRaises(t, msg) ==
    /\ pc[t] = "in_flight"
    /\ exc' = [exc EXCEPT ![t] = Exception(msg)]
    /\ served' = [served EXCEPT ![t] = Append(@, [ok |-> FALSE, value |-> msg])]
    /\ IF attempt[t] < max_retries - 1
       THEN /\ wake' = [wake EXCEPT ![t] = now + wait_time(attempt[t])]
            /\ waits' = [waits EXCEPT ![t] = Append(@, wait_time(attempt[t]))]
            /\ pc' = [pc EXCEPT ![t] = "backoff"]
       ELSE /\ pc' = [pc EXCEPT ![t] = "fetch_raised"]
            /\ UNCHANGED <<wake, waits>>
    /\ UNCHANGED <<now, last_request_time, lastDispatch, attempt, analysis,
                   callerVars>>
    /\ fetches' = [fetches EXCEPT ![t] =
           IF attempt[t] < max_retries - 1 THEN @
           ELSE Append(@, [timeframe |-> request[t].interval, ok |-> FALSE])]
    /\ log' = [log EXCEPT ![t] =
           IF attempt[t] < max_retries - 1 THEN @
           ELSE Append(@, Event("failed", request[t].interval, 0))]
    /\ UNCHANGED entry

\* BackoffWake without the step of the loop variable: the same attempt
\* again (sensitivity check of C17)
BackoffWake_SameAttempt(t) ==
    /\ pc[t] = "backoff"
    /\ now >= wake[t]
    /\ wake' = [wake EXCEPT ![t] = 0]
    /\ pc' = [pc EXCEPT ![t] = "rate_limit"]
    /\ UNCHANGED <<now, last_request_time, lastDispatch, attempt, analysis, exc,
                   served, waits, callerVars>>
    /\ UNCHANGED <<fetches, log, entry>>

\* line 54 returns; line 45: the next iteration of the loop
BackoffWake(t) ==
    /\ pc[t] = "backoff"
    /\ now >= wake[t]
    /\ attempt' = [attempt EXCEPT ![t] = @ + 1]
    /\ wake' = [wake EXCEPT ![t] = 0]
    /\ pc' = [pc EXCEPT ![t] = "rate_limit"]
    /\ UNCHANGED <<now, last_request_time, lastDispatch, analysis, exc, served,
                   waits, callerVars>>
    /\ UNCHANGED <<fetches, log, entry>>

fetchVars == <<attempt, wake, analysis, exc, served, waits>>

\* the endpoint returns or raises: its frame and those of its callees are
\* dropped, the thread is idle again
EndOfRequest(t, answer) ==
    /\ response' = [response EXCEPT ![t] = answer]
    /\ pc' = [pc EXCEPT ![t] = "idle"]
    /\ handler' = [handler EXCEPT ![t] = NoHandler]
    /\ attempt' = [attempt EXCEPT ![t] = 0]
    /\ wake' = [wake EXCEPT ![t] = 0]
    /\ analysis' = [analysis EXCEPT ![t] = None]
    /\ exc' = [exc EXCEPT ![t] = NoException]
    /\ served' = [served EXCEPT ![t] = <<>>]
    /\ waits' = [waits EXCEPT ![t] = <<>>]
    /\ data' = [data EXCEPT ![t] = NoResponse]
    /\ i' = [i EXCEPT ![t] = 0]
    /\ result' = [result EXCEPT ![t] = <<>>]
    /\ ticker' = [ticker EXCEPT ![t] = NoTicker]
    /\ df' = [df EXCEPT ![t] = <<>>]
    /\ levels' = [levels EXCEPT ![t] = NoLevels]
    /\ UNCHANGED <<now, last_request_time, lastDispatch, mode, request>>

(***************************************************************************)
(* POST /get-data: get_trading_data(request), lines 66-135.                *)
(***************************************************************************)
\* a client posts a request to /get-data
StartGetData(t, req) ==
    /\ pc[t] = "idle"
    /\ mode' = [mode EXCEPT ![t] = "get-data"]
    /\ request' = [request EXCEPT ![t] = req]
    /\ response' = [response EXCEPT ![t] = NoResponse]
    /\ pc' = [pc EXCEPT ![t] = "get_trading_data"]
    /\ UNCHANGED <<now, last_request_time, lastDispatch, handler, fetchVars,
                   data, i, result, ticker, df, levels>>
    /\ fetches' = [fetches EXCEPT ![t] = <<>>]
    /\ log' = [log EXCEPT ![t] = <<>>]
    /\ entry' = [entry EXCEPT ![t] = req]

\* lines 69-88: the interval, the handler, the call of the fetcher
GetTradingDataCall(t) ==
    /\ pc[t] = "get_trading_data"
    /\ LET interval_enum == interval_map(request[t].interval)
       IN  handler' = [handler EXCEPT ![t] =
               TA_Handler(request[t].symbol, request[t].exchange,
                          request[t].screener, interval_enum)]
    /\ get_analysis_with_retry(t)
    /\ UNCHANGED <<now, last_request_time, lastDispatch, mode, request, wake,
                   data, i, result, ticker, df, levels, response>>
    /\ UNCHANGED <<fetches, log, entry>>

\* the output of lines 91-129; the indicator, trend and summary blocks are
\* read off the snapshot
Output(req, snapshot) ==
    [symbol |-> req.symbol, exchange |-> req.exchange,
     screener |-> req.screener, timeframe |-> req.interval,
     snapshot |-> snapshot]

\* lines 89-131: the fetcher returned; return {"success": True, "data": output}
\* to the client, or to get_multi_timeframe
GetTradingDataReturn(t) ==
    /\ pc[t] = "fetched"
    /\ mode[t] \in {"get-data", "get-multi-timeframe"}
    /\ LET answer == Success(Output(request[t], analysis[t]))
       IN  IF mode[t] = "get-data"
           THEN EndOfRequest(t, answer)
           ELSE /\ data' = [data EXCEPT ![t] = answer]
                /\ pc' = [pc EXCEPT ![t] = "multi_store"]
                /\ handler' = [handler EXCEPT ![t] = NoHandler]
                /\ analysis' = [analysis EXCEPT ![t] = None]
                /\ attempt' = [attempt EXCEPT ![t] = 0]
                /\ served' = [served EXCEPT ![t] = <<>>]
                /\ waits' = [waits EXCEPT ![t] = <<>>]
                /\ exc' = [exc EXCEPT ![t] = NoException]
                /\ UNCHANGED <<now, last_request_time, lastDispatch, mode,
                               request, wake, i, result, ticker, df, levels,
                               response>>
    /\ UNCHANGED <<fetches, log, entry>>

\* lines 133-135: raise HTTPException(status_code=500, detail=str(e)), to the
\* client or into get_multi_timeframe
GetTradingDataExcept(t) ==
    /\ pc[t] = "fetch_raised"
    /\ mode[t] \in {"get-data", "get-multi-timeframe"}
    /\ LET raised == HTTPException(500, Str(exc[t]))
       IN  IF mode[t] = "get-data"
           THEN EndOfRequest(t, Failure(raised))
           ELSE /\ exc' = [exc EXCEPT ![t] = raised]
                /\ pc' = [pc EXCEPT ![t] = "multi_except"]
                /\ handler' = [handler EXCEPT ![t] = NoHandler]
                /\ attempt' = [attempt EXCEPT ![t] = 0]
                /\ served' = [served EXCEPT ![t] = <<>>]
                /\ waits' = [waits EXCEPT ![t] = <<>>]
                /\ UNCHANGED <<now, last_request_time, lastDispatch, mode,
                               request, wake, analysis, data, i, result, ticker,
                               df, levels, response>>
    /\ UNCHANGED <<fetches, log, entry>>

(***************************************************************************)
(* POST /get-multi-timeframe: get_multi_timeframe(request), lines 137-156. *)
(***************************************************************************)
\* line 141
timeframes == <<"1H", "15M", "5M">>

\* a client posts a request; lines 141-142
StartMultiTimeframe(t, req) ==
    /\ pc[t] = "idle"
    /\ mode' = [mode EXCEPT ![t] = "get-multi-timeframe"]
    /\ request' = [request EXCEPT ![t] = req]
    /\ response' = [response EXCEPT ![t] = NoResponse]
    /\ result' = [result EXCEPT ![t] = <<>>]
    /\ i' = [i EXCEPT ![t] = 0]
    /\ pc' = [pc EXCEPT ![t] = "multi_loop"]
    /\ UNCHANGED <<now, last_request_time, lastDispatch, handler, fetchVars,
                   data, ticker, df, levels>>
    /\ fetches' = [fetches EXCEPT ![t] = <<>>]
    /\ log' = [log EXCEPT ![t] = <<>>]
    /\ entry' = [entry EXCEPT ![t] = req]

\* MultiTimeframeIter without the assignment of line 145: every timeframe
\* is fetched with the interval the request came with (sensitivity check
\* of C15)
MultiTimeframeIter_KeepsInterval(t) ==
    /\ pc[t] = "multi_loop"
    /\ pc' = [pc EXCEPT ![t] = "get_trading_data"]
    /\ UNCHANGED <<now, last_request_time, lastDispatch, mode, request, handler,
                   fetchVars, data, i, result, ticker, df, levels, response>>
    /\ UNCHANGED <<fetches, log, entry>>

\* lines 144-146: request.interval = tf; data = get_trading_data(request)
MultiTimeframeIter(t) ==
    /\ pc[t] = "multi_loop"
    /\ LET tf == timeframes[i[t] + 1]
       IN  request' = [request EXCEPT ![t].interval = tf]
    /\ pc' = [pc EXCEPT ![t] = "get_trading_data"]
    /\ UNCHANGED <<now, last_request_time, lastDispatch, mode, handler,
                   fetchVars, data, i, result, ticker, df, levels, response>>
    /\ UNCHANGED <<fetches, log, entry>>

\* result[tf] = value
SetItem(dict, key, value) ==
    [k \in (DOMAIN dict) \cup {key} |-> IF k = key THEN value ELSE dict[k]]

\* lines 147-152: store the entry; sleep 1 s before the next timeframe, or
\* return {"success": True, "data": result} after the last
MultiTimeframeStore(t) ==
    /\ pc[t] = "multi_store"
    /\ LET tf == timeframes[i[t] + 1]
           filled == SetItem(result[t], tf, data[t].data)
       IN  IF i[t] < Len(timeframes) - 1
           THEN /\ result' = [result EXCEPT ![t] = filled]
                /\ data' = [data EXCEPT ![t] = NoResponse]
                /\ wake' = [wake EXCEPT ![t] = now + TimeframePause]
                /\ pc' = [pc EXCEPT ![t] = "multi_sleep"]
                /\ UNCHANGED <<now, last_request_time, lastDispatch, mode,
                               request, handler, attempt, analysis, exc, served,
                               waits, i, ticker, df, levels, response>>
           ELSE EndOfRequest(t, Success(filled))
    /\ log' = [log EXCEPT ![t] =
           IF i[t] < Len(timeframes) - 1
           THEN Append(@, Event("pause", timeframes[i[t] + 1], TimeframePause))
           ELSE @]
    /\ UNCHANGED <<fetches, entry>>

\* line 150 returns; line 144: the next timeframe
MultiTimeframeWake(t) ==
    /\ pc[t] = "multi_sleep"
    /\ now >= wake[t]
    /\ i' = [i EXCEPT ![t] = @ + 1]
    /\ wake' = [wake EXCEPT ![t] = 0]
    /\ pc' = [pc EXCEPT ![t] = "multi_loop"]
    /\ UNCHANGED <<now, last_request_time, lastDispatch, mode, request, handler,
                   attempt, analysis, exc, served, waits, data, result, ticker,
                   df, levels, response>>
    /\ UNCHANGED <<fetches, log, entry>>

\* MultiTimeframeExcept answering with the entries collected so far
\* (sensitivity check of C6)
MultiTimeframeExcept_Partial(t) ==
    /\ pc[t] = "multi_except"
    /\ EndOfRequest(t, Success(result[t]))
    /\ UNCHANGED <<fetches, log, entry>>

\* lines 154-156: raise HTTPException(status_code=500, detail=str(e)); the
\* local result is dropped with the frame
MultiTimeframeExcept(t) ==
    /\ pc[t] = "multi_except"
    /\ EndOfRequest(t, Failure(HTTPException(500, Str(exc[t]))))
    /\ UNCHANGED <<fetches, log, entry>>

(***************************************************************************)
(* POST /get-historical-with-levels: get_historical_with_levels(request),  *)
(* lines 158-304.                                                          *)
(***************************************************************************)
\* a client posts a request to /get-historical-with-levels
StartHistorical(t, req) ==
    /\ pc[t] = "idle"
    /\ mode' = [mode EXCEPT ![t] = "get-historical-with-levels"]
    /\ request' = [request EXCEPT ![t] = req]
    /\ response' = [response EXCEPT ![t] = NoResponse]
    /\ pc' = [pc EXCEPT ![t] = "historical"]
    /\ UNCHANGED <<now, last_request_time, lastDispatch, handler, fetchVars,
                   data, i, result, ticker, df, levels>>
    /\ fetches' = [fetches EXCEPT ![t] = <<>>]
    /\ log' = [log EXCEPT ![t] = <<>>]
    /\ entry' = [entry EXCEPT ![t] = req]

\* HistoricalImport letting the ImportError through (sensitivity check of
\* C19)
HistoricalImport_Plain(t, installed) ==
    /\ pc[t] = "historical"
    /\ IF installed
       THEN /\ pc' = [pc EXCEPT ![t] = "history"]
            /\ UNCHANGED exc
       ELSE /\ exc' = [exc EXCEPT ![t] = Exception("No module named 'yfinance'")]
            /\ pc' = [pc EXCEPT ![t] = "raised"]
    /\ UNCHANGED <<now, last_request_time, lastDispatch, mode, request, handler,
                   attempt, wake, analysis, served, waits, data, i, result,
                   ticker, df, levels, response>>
    /\ UNCHANGED <<fetches, log, entry>>

\* HistoricalImport preceded by a call of rate_limit that does not sleep
\* (sensitivity check of C20)
HistoricalImport_Stamped(t, installed) ==
    /\ pc[t] = "historical"
    /\ last_request_time' = now
    /\ IF installed
       THEN /\ pc' = [pc EXCEPT ![t] = "history"]
            /\ UNCHANGED exc
       ELSE /\ exc' = [exc EXCEPT ![t] =
                   HTTPException(501, <<"Historical data endpoint requires yfinance package. Use /get-data instead.">>)]
            /\ pc' = [pc EXCEPT ![t] = "http_raised"]
    /\ UNCHANGED <<now, lastDispatch, mode, request, handler,
                   attempt, wake, analysis, served, waits, data, i, result,
                   ticker, df, levels, response>>
    /\ UNCHANGED <<fetches, log, entry>>

\* lines 163-171: import yfinance; without it, HTTPException(501)
HistoricalImport(t, installed) ==
    /\ pc[t] = "historical"
    /\ IF installed
       THEN /\ pc' = [pc EXCEPT ![t] = "history"]
            /\ UNCHANGED exc
       ELSE /\ exc' = [exc EXCEPT ![t] =
                   HTTPException(501, <<"Historical data endpoint requires yfinance package. Use /get-data instead.">>)]
            /\ pc' = [pc EXCEPT ![t] = "http_raised"]
    /\ UNCHANGED <<now, last_request_time, lastDispatch, mode, request, handler,
                   attempt, wake, analysis, served, waits, data, i, result,
                   ticker, df, levels, response>>
    /\ UNCHANGED <<fetches, log, entry>>

\* lines 174-210: the provider's symbol and interval; ticker.history(...)
\* returns the table `frame`
HistoricalFetch(t, frame) ==
    /\ pc[t] = "history"
    /\ LET yahoo_symbol == symbol_map(request[t].symbol)
           yf_interval == yf_interval_map(request[t].interval)
           lookback == request[t].lookback_days
       IN  ticker' = [ticker EXCEPT ![t] =
                         Ticker(yahoo_symbol, lookback, yf_interval)]
    /\ df' = [df EXCEPT ![t] = frame]
    /\ pc' = [pc EXCEPT ![t] = "levels"]
    /\ UNCHANGED <<now, last_request_time, lastDispatch, mode, request, handler,
                   fetchVars, data, i, result, levels, response>>
    /\ log' = [log EXCEPT ![t] =
           Append(@, Event("history", yf_interval_map(request[t].interval), 0))]
    /\ UNCHANGED <<fetches, entry>>

\* line 210: ticker.history(...) raises
HistoricalFetchRaises(t, msg) ==
    /\ pc[t] = "history"
    /\ exc' = [exc EXCEPT ![t] = Exception(msg)]
    /\ pc' = [pc EXCEPT ![t] = "raised"]
    /\ UNCHANGED <<now, last_request_time, lastDispatch, mode, request, handler,
                   attempt, wake, analysis, served, waits, data, i, result,
                   ticker, df, levels, response>>
    /\ log' = [log EXCEPT ![t] =
           Append(@, Event("history", yf_interval_map(request[t].interval), 0))]
    /\ UNCHANGED <<fetches, entry>>

\* a table of fewer than 7 candles taken for empty (sensitivity check of C7)
empty_below_seven(frame) == Len(frame) < 7

\* df.empty
empty(frame) == Len(frame) = 0

\* lines 212-261: HTTPException(404) for an empty table; else the levels,
\* the handler and the call of the fetcher
HistoricalLevels(t) ==
    /\ pc[t] = "levels"
    /\ IF empty(df[t])
       THEN /\ exc' = [exc EXCEPT ![t] =
                   HTTPException(404, <<"No data found for ">> \o ticker[t].symbol
                       \o <<". Symbol may not be available on Yahoo Finance.">>)]
            /\ pc' = [pc EXCEPT ![t] = "http_raised"]
            /\ UNCHANGED <<levels, handler, attempt, analysis, served, waits>>
       ELSE /\ levels' = [levels EXCEPT ![t] = Levels(df[t])]
            /\ handler' = [handler EXCEPT ![t] =
                   TA_Handler(request[t].symbol, request[t].exchange,
                              request[t].screener,
                              interval_tv_map(request[t].interval))]
            /\ get_analysis_with_retry(t)
    /\ UNCHANGED <<now, last_request_time, lastDispatch, mode, request, wake,
                   data, i, result, ticker, df, response>>
    /\ UNCHANGED <<fetches, log, entry>>

\* the output of lines 264-296
HistoricalOutput(req, lookback, frame, lv, snapshot) ==
    [symbol |-> req.symbol, exchange |-> req.exchange,
     screener |-> req.screener, timeframe |-> req.interval,
     lookback_days |-> lookback, total_candles |-> Len(frame),
     price_action_levels |-> price_action_levels(lv),
     candles |-> frame, snapshot |-> snapshot]

\* lines 262-298: the fetcher returned; build the output and return it (a
\* division by zero in line 278 would raise)
HistoricalReturn(t) ==
    /\ pc[t] = "fetched"
    /\ mode[t] = "get-historical-with-levels"
    /\ LET output == HistoricalOutput(request[t], ticker[t].period, df[t],
                                      levels[t], analysis[t])
       IN  IF output.price_action_levels.current_position_in_range.den = 0
           THEN /\ exc' = [exc EXCEPT ![t] = Exception("float division by zero")]
                /\ pc' = [pc EXCEPT ![t] = "raised"]
                /\ UNCHANGED <<now, last_request_time, lastDispatch, mode,
                               request, handler, attempt, wake, analysis, served,
                               waits, data, i, result, ticker, df, levels,
                               response>>
           ELSE EndOfRequest(t, Success(output))
    /\ UNCHANGED <<fetches, log, entry>>

\* HistoricalReraise without the clause of lines 300-301: the catch-all of
\* lines 302-304 takes the HTTPException (sensitivity check of C12)
HistoricalReraise_Generic(t) ==
    /\ pc[t] = "http_raised"
    /\ EndOfRequest(t, Failure(HTTPException(500,
           <<"Error fetching historical data: ">> \o Str(exc[t]))))
    /\ UNCHANGED <<fetches, log, entry>>

\* lines 300-301: except HTTPException: raise
HistoricalReraise(t) ==
    /\ pc[t] = "http_raised"
    /\ EndOfRequest(t, Failure(exc[t]))
    /\ UNCHANGED <<fetches, log, entry>>

\* lines 302-304: any other exception becomes HTTPException(500)
HistoricalExcept(t) ==
    /\ pc[t] \in {"raised", "fetch_raised"}
    /\ mode[t] = "get-historical-with-levels"
    /\ EndOfRequest(t, Failure(HTTPException(500,
           <<"Error fetching historical data: ">> \o Str(exc[t]))))
    /\ UNCHANGED <<fetches, log, entry>>

(***************************************************************************)
(* The tables the historical provider returns.                             *)
(***************************************************************************)
\* the ten hourly candles with highs 10, 11, 9, 12, 8, 13, 7, 14, 6, 15 and
\* each low 1 below its high
CanonicalHighs == <<10, 11, 9, 12, 8, 13, 7, 14, 6, 15>>
CanonicalFrame ==
    [k \in 1..Len(CanonicalHighs) |->
        Candle(CanonicalHighs[k] - 1, CanonicalHighs[k], CanonicalHighs[k] - 1,
               CanonicalHighs[k])]

\* the same ten candles, each closing at its low
CanonicalFrameLowClose ==
    [k \in 1..Len(CanonicalHighs) |->
        Candle(CanonicalHighs[k] - 1, CanonicalHighs[k], CanonicalHighs[k] - 1,
               CanonicalHighs[k] - 1)]

\* the tables of Spec: none, one candle, the canonical ten
Frames == {<<>>, <<Candle(2, 3, 1, 2)>>, CanonicalFrame}

\* prices, in ticks
Prices == 1..MaxPrice
\* a candle's low is at most its open and close, and these at most its high
Candles ==
    {Candle(c, h, l, c) : <<l, c, h>> \in
        {q \in Prices \X Prices \X Prices : q[1] <= q[2] /\ q[2] <= q[3]}}
FlatCandles == {Candle(x, x, x, x) : x \in Prices}

\* n candles, all `base` but the one at position p
SpikeFrame(n, base, spike, p) == [k \in 1..n |-> IF k = p THEN spike ELSE base]

\* the lengths of the tables of SpecLevels: short ones, and those around
\* the recent window
FrameLengths ==
    (0..MaxShortFrame) \cup ((RecentWindow - WindowSlack)..(RecentWindow + WindowSlack))
\* the places of the spike: both ends of the table and of the recent window
SpikePositions(n) ==
    {1, 2, n - RecentWindow, n - RecentWindow + 1, n - 1, n} \cap (1..n)

\* the tables of SpecLevels
LevelFrames ==
    {<<>>, CanonicalFrame, CanonicalFrameLowClose} \cup
    {SpikeFrame(n, base, spike, p) :
        <<n, p>> \in {q \in FrameLengths \X (1..(RecentWindow + WindowSlack)) :
                         q[2] \in SpikePositions(q[1])},
        base \in FlatCandles, spike \in Candles}

(***************************************************************************)
(* Spec: one worker thread serves requests one after another.              *)
(***************************************************************************)
Fetcher(t) ==
    \/ RateLimitRead(t)
    \/ RateLimitWake(t)
    \/ RateLimitWrite(t)
    \/ Dispatch(t)
    \/ \E snapshot \in Snapshots : GetAnalysisReturns(t, snapshot)
    \/ \E msg \in ErrorMessages : GetAnalysisRaises(t, msg)
    \/ BackoffWake(t)

GetTradingData(t) ==
    \/ GetTradingDataCall(t)
    \/ GetTradingDataReturn(t)
    \/ GetTradingDataExcept(t)

MultiTimeframe(t) ==
    \/ MultiTimeframeIter(t)
    \/ MultiTimeframeStore(t)
    \/ MultiTimeframeWake(t)
    \/ MultiTimeframeExcept(t)

Historical(t, frames) ==
    \/ \E installed \in BOOLEAN : HistoricalImport(t, installed)
    \/ \E frame \in frames : HistoricalFetch(t, frame)
    \/ \E msg \in ErrorMessages : HistoricalFetchRaises(t, msg)
    \/ HistoricalLevels(t)
    \/ HistoricalReturn(t)
    \/ HistoricalReraise(t)
    \/ HistoricalExcept(t)

Next ==
    \/ Tick(StartTime + MaxTicks * Quantum)
    \/ \E req \in Requests : StartGetData(MainThread, req)
    \/ \E req \in Requests : StartMultiTimeframe(MainThread, req)
    \/ \E req \in Requests : StartHistorical(MainThread, req)
    \/ Fetcher(MainThread)
    \/ GetTradingData(MainThread)
    \/ MultiTimeframe(MainThread)
    \/ Historical(MainThread, Frames)

Spec == Init /\ [][Next]_vars

(***************************************************************************)
(* SpecFetch: one worker thread serves /get-data requests, over a time     *)
(* long enough for all the retries of a fetch.                             *)
(***************************************************************************)
NextFetch ==
    \/ Tick(StartTime + MaxTicksFetch * Quantum)
    \/ \E req \in Requests : StartGetData(MainThread, req)
    \/ Fetcher(MainThread)
    \/ GetTradingData(MainThread)

SpecFetch == Init /\ [][NextFetch]_vars

(***************************************************************************)
(* SpecMulti: one worker thread serves /get-multi-timeframe requests, over *)
(* a time long enough for a timeframe to fail after another succeeded.     *)
(***************************************************************************)
\* the interval a request comes with is overwritten at line 145 before it
\* is read: one value, none of the three timeframes, stands for all
MultiRequests == {SymbolRequest(s, c) : s \in Symbols, c \in {"4H"}}

NextMulti ==
    \/ Tick(StartTime + MaxTicksMulti * Quantum)
    \/ \E req \in MultiRequests : StartMultiTimeframe(MainThread, req)
    \/ Fetcher(MainThread)
    \/ GetTradingData(MainThread)
    \/ MultiTimeframe(MainThread)

SpecMulti == Init /\ [][NextMulti]_vars

(***************************************************************************)
(* SpecLevels: one worker thread serves /get-historical-with-levels        *)
(* requests at one instant (the clock stands still), over the tables       *)
(* LevelFrames.                                                            *)
(***************************************************************************)
NextLevels ==
    \/ \E req \in {SymbolRequest("EURUSD", "1H"), SymbolRequest("EURUSD", "1D")} :
           StartHistorical(MainThread, req)
    \/ Historical(MainThread, LevelFrames)
    \/ RateLimitRead(MainThread)
    \/ RateLimitWrite(MainThread)
    \/ Dispatch(MainThread)
    \/ \E snapshot \in Snapshots : GetAnalysisReturns(MainThread, snapshot)
    \/ \E msg \in ErrorMessages : GetAnalysisRaises(MainThread, msg)

SpecLevels == Init /\ [][NextLevels]_vars

(***************************************************************************)
(* SpecConc: every worker thread serves /get-data requests, and the        *)
(* provider answers every call (the failures and the back-off waits, which *)
(* are local to a thread, are those of SpecFetch).                         *)
(***************************************************************************)
NextConc ==
    \/ Tick(StartTime + MaxTicksConc * Quantum)
    \/ \E t \in Threads, req \in Requests : StartGetData(t, req)
    \/ \E t \in Threads : GetTradingDataCall(t)
    \/ \E t \in Threads : RateLimitRead(t)
    \/ \E t \in Threads : RateLimitWake(t)
    \/ \E t \in Threads : RateLimitWrite(t)
    \/ \E t \in Threads : Dispatch(t)
    \/ \E t \in Threads, snapshot \in Snapshots : GetAnalysisReturns(t, snapshot)
    \/ \E t \in Threads : GetTradingDataReturn(t)

SpecConc == Init /\ [][NextConc]_vars

(***************************************************************************)
(* SpecIntervals: one worker thread serves /get-data and                   *)
(* /get-historical-with-levels requests of every timeframe code; both      *)
(* providers answer every call.                                            *)
(***************************************************************************)
IntervalRequests == {SymbolRequest(s, c) : s \in Symbols, c \in TimeframeCodes}

NextIntervals ==
    \/ Tick(StartTime + MaxTicksIntervals * Quantum)
    \/ \E req \in IntervalRequests : StartGetData(MainThread, req)
    \/ \E req \in IntervalRequests : StartHistorical(MainThread, req)
    \/ GetTradingDataCall(MainThread)
    \/ HistoricalImport(MainThread, TRUE)
    \/ \E frame \in Frames \ {<<>>} : HistoricalFetch(MainThread, frame)
    \/ HistoricalLevels(MainThread)
    \/ RateLimitRead(MainThread)
    \/ RateLimitWake(MainThread)
    \/ RateLimitWrite(MainThread)
    \/ Dispatch(MainThread)
    \/ \E snapshot \in Snapshots : GetAnalysisReturns(MainThread, snapshot)
    \/ GetTradingDataReturn(MainThread)
    \/ HistoricalReturn(MainThread)

SpecIntervals == Init /\ [][NextIntervals]_vars

(***************************************************************************)
(* SpecCount: one worker thread serves requests of the three endpoints one *)
(* after another; every sleep returns when it is due, so that a request    *)
(* can go through all its attempts.                                        *)
(***************************************************************************)
CountRequests == {SymbolRequest(s, c) : s \in Symbols, c \in {"4H"}}

NextCount ==
    \/ Leap(MainThread, StartTime + MaxTicksCount * Quantum)
    \/ \E req \in CountRequests : StartGetData(MainThread, req)
    \/ \E req \in CountRequests : StartMultiTimeframe(MainThread, req)
    \/ \E req \in CountRequests : StartHistorical(MainThread, req)
    \/ Fetcher(MainThread)
    \/ GetTradingData(MainThread)
    \/ MultiTimeframe(MainThread)
    \/ Historical(MainThread, Frames)

SpecCount == Init /\ [][NextCount]_vars

(***************************************************************************)
(* Properties.                                                             *)
(***************************************************************************)
\* thread t invokes handler.get_analysis() in this step
Dispatches(t) == pc[t] = "dispatch" /\ pc'[t] = "in_flight"

\* C1: with requests running concurrently, under every interleaving (the
\* read-compare-sleep-write of last_request_time being mutually exclusive)
\* no two dispatches to the provider, from any threads, are less than
\* 500 ms apart.
C1_ConcurrentSpacing ==
    [][\A t \in Threads : Dispatches(t) /\ lastDispatch # -1
           => now - lastDispatch >= MIN_REQUEST_INTERVAL]_vars

\* C2: in a single thread, any two successive invocations of
\* handler.get_analysis() are at least 500 ms apart, whatever time passes
\* between the steps.
C2_SequentialSpacing ==
    [][Dispatches(MainThread) /\ lastDispatch # -1
          => now - lastDispatch >= MIN_REQUEST_INTERVAL]_vars

\* the attempts of the fetch of thread t so far: n failures, then a success
FailedThenSucceeded(t, n) ==
    /\ Len(served[t]) = n + 1
    /\ \A k \in 1..n : ~served[t][k].ok
    /\ served[t][n + 1].ok

\* the attempts of the fetch of thread t so far: n failures
FailedTimes(t, n) ==
    /\ Len(served[t]) = n
    /\ \A k \in 1..n : ~served[t][k].ok

\* C3: a fetch whose first two attempts fail and whose third succeeds
\* returns the third attempt's snapshot, raises nothing, and has made
\* exactly two backoff waits, of 2 s then 4 s.
C3_FailFailSucceed ==
    FailedThenSucceeded(MainThread, 2)
        => /\ pc[MainThread] = "fetched"
           /\ analysis[MainThread] = served[MainThread][3].value
           /\ analysis[MainThread] \in Snapshots
           /\ waits[MainThread] = <<2000, 4000>>

C3_Witness ==
    FailedThenSucceeded(MainThread, 2) /\ pc[MainThread] = "fetched"

\* the calls of handler.get_analysis() made by the fetch of thread t so far
Dispatched(t) == Len(served[t]) + (IF pc[t] = "in_flight" THEN 1 ELSE 0)

\* C4: whatever the provider answers, a fetch makes at most 3 dispatches,
\* and the first success ends it: every attempt before the last one failed,
\* and after a success the fetch has returned, with one backoff wait per
\* failure and none after the success.
C4_BoundedAttempts ==
    \A t \in {MainThread} :
        /\ Dispatched(t) <= 3
        /\ \A k \in 1..(Len(served[t]) - 1) : ~served[t][k].ok
        /\ \A n \in 0..2 : FailedThenSucceeded(t, n)
               => pc[t] = "fetched" /\ Len(waits[t]) = n

C4_Witness ==
    FailedThenSucceeded(MainThread, 1) /\ pc[MainThread] = "fetched"

\* C5: when all 3 attempts fail, the fetch raises the error of the third
\* attempt, returns no snapshot and no empty value, and waits only after the
\* first two failures (2 s and 4 s).
C5_AllAttemptsFail ==
    FailedTimes(MainThread, 3)
        => /\ pc[MainThread] = "fetch_raised"
           /\ exc[MainThread] = Exception(served[MainThread][3].value)
           /\ analysis[MainThread] = None
           /\ waits[MainThread] = <<2000, 4000>>

C5_Witness ==
    /\ FailedTimes(MainThread, 3)
    /\ pc[MainThread] = "fetch_raised"
    /\ served[MainThread][3].value # served[MainThread][1].value

\* thread t has answered a /get-multi-timeframe request
MultiAnswered(t) ==
    /\ mode[t] = "get-multi-timeframe"
    /\ pc[t] = "idle"
    /\ response[t] # NoResponse

\* C6: in the multi-timeframe mode a failed fetch of any timeframe makes the
\* whole call end in an error that carries none of the entries collected; a
\* success envelope is returned only when the fetches of 1h, 15m and 5m all
\* succeeded, and it holds exactly these three keys.
C6_NoPartialResult ==
    \A t \in {MainThread} :
        MultiAnswered(t)
            => /\ response[t].success
                   <=> /\ Len(fetches[t]) = 3
                       /\ \A k \in 1..3 : fetches[t][k].ok
                       /\ {fetches[t][k].timeframe : k \in 1..3} = {"1H", "15M", "5M"}
               /\ response[t].success
                   => DOMAIN response[t].data = {"1H", "15M", "5M"}
               /\ ~response[t].success
                   => /\ DOMAIN response[t].data = {}
                      /\ response[t].status = 500
                      /\ \E k \in 1..Len(fetches[t]) : ~fetches[t][k].ok

\* 1h was fetched, then the fetch of 15m failed: the call ended in an error
C6_Witness ==
    /\ MultiAnswered(MainThread)
    /\ Len(fetches[MainThread]) = 2
    /\ fetches[MainThread][1] = [timeframe |-> "1H", ok |-> TRUE]
    /\ fetches[MainThread][2] = [timeframe |-> "15M", ok |-> FALSE]
    /\ ~response[MainThread].success

\* thread t has answered a /get-historical-with-levels request with an
\* output
HistoricalAnswered(t) ==
    /\ mode[t] = "get-historical-with-levels"
    /\ pc[t] = "idle"
    /\ response[t].success

\* thread t is past line 212 of a /get-historical-with-levels request
PastEmptyCheck(t) ==
    /\ mode[t] = "get-historical-with-levels"
    /\ pc[t] \in {"rate_limit", "rate_limit_sleep", "rate_limit_write",
                  "dispatch", "in_flight", "backoff", "fetched", "fetch_raised"}

Highs(candles) == {candles[k].High : k \in 1..Len(candles)}
Lows(candles) == {candles[k].Low : k \in 1..Len(candles)}

C8_RecentWithinPeriod ==
    \A t \in {MainThread} :
        HistoricalAnswered(t)
            => LET lv == response[t].data.price_action_levels
               IN  /\ lv.period_low <= lv.recent_low_3d
                   /\ lv.recent_high_3d <= lv.period_high

\* more than 72 candles, the highest and the lowest before the recent window
C8_Witness ==
    /\ HistoricalAnswered(MainThread)
    /\ response[MainThread].data.total_candles > 72
    /\ LET lv == response[MainThread].data.price_action_levels
       IN  /\ lv.recent_high_3d < lv.period_high
           /\ lv.period_low < lv.recent_low_3d

\* C9: whenever period_high = period_low, current_position_in_range is
\* exactly 50 and nothing is divided (a division by zero would raise);
\* whenever period_range > 0 it is
\* (last_close - period_low) / period_range * 100.
C9_PositionInRange ==
    \A t \in {MainThread} :
        /\ exc[t] # Exception("float division by zero")
        /\ HistoricalAnswered(t)
               => LET d == response[t].data
                      lv == d.price_action_levels
                      position == lv.current_position_in_range
                      last_close == d.candles[Len(d.candles)].Close
                  IN  /\ lv.period_high = lv.period_low => position = Whole(50)
                      /\ lv.period_range > 0
                             => /\ position.den > 0
                                /\ position.num * lv.period_range
                                       = (last_close - lv.period_low) * 100
                                             * position.den

\* a sequence of zero range was answered, with position 50
C9_Witness ==
    /\ HistoricalAnswered(MainThread)
    /\ LET lv == response[MainThread].data.price_action_levels
       IN  /\ lv.period_high = lv.period_low
           /\ lv.current_position_in_range = Whole(50)

\* C10: for every candle sequence the level computation accepts (its
\* candles having low <= close <= high), current_position_in_range lies
\* between 0 and 100 inclusive.
C10_PositionWithinBounds ==
    \A t \in {MainThread} :
        HistoricalAnswered(t)
            => LET position ==
                       response[t].data.price_action_levels.current_position_in_range
               IN  /\ position.den > 0
                   /\ 0 <= position.num
                   /\ position.num <= 100 * position.den

\* a position strictly between 0 and 100, other than 50
C10_Witness ==
    /\ HistoricalAnswered(MainThread)
    /\ LET lv == response[MainThread].data.price_action_levels
           position == lv.current_position_in_range
       IN  /\ lv.period_range > 0
           /\ 0 < position.num
           /\ position.num < 100 * position.den
           /\ position.num # 50 * position.den


\* the timeframe, in minutes, that an interval of the live-indicator provider
\* and one of the historical provider stand for
TVMinutes(interval) ==
    CASE interval = "INTERVAL_1_MINUTE" -> 1
      [] interval = "INTERVAL_5_MINUTES" -> 5
      [] interval = "INTERVAL_15_MINUTES" -> 15
      [] interval = "INTERVAL_1_HOUR" -> 60
      [] interval = "INTERVAL_4_HOURS" -> 240
      [] interval = "INTERVAL_1_DAY" -> 1440
      [] OTHER -> 0
YFMinutes(interval) ==
    CASE interval = "1m" -> 1
      [] interval = "5m" -> 5
      [] interval = "15m" -> 15
      [] interval = "1h" -> 60
      [] interval = "4h" -> 240
      [] interval = "1d" -> 1440
      [] OTHER -> 0

\* thread t has built the handler of the live-indicator provider
HandlerBuilt(t) == handler[t] # NoHandler
\* thread t has called the historical provider
HistoryCalled(t) == ticker[t] # NoTicker

\* C11: for every timeframe code outside the recognized set the handler of
\* /get-data, the handler of /get-historical-with-levels and the call of the
\* historical provider all use the 1-hour interval, and the request does not
\* end in an error; for every recognized code the two providers' intervals
\* stand for the same timeframe, and distinct recognized codes get distinct
\* intervals.
C11_IntervalDefaults ==
    \A t \in {MainThread} :
        LET code == request[t].interval
        IN  /\ HandlerBuilt(t) /\ code \notin RecognizedCodes
                => handler[t].interval = "INTERVAL_1_HOUR"
            /\ HistoryCalled(t) /\ code \notin RecognizedCodes
                => ticker[t].interval = "1h"
            /\ exc[t] = NoException
            /\ response[t] # NoResponse => response[t].success
            /\ HandlerBuilt(t) /\ HistoryCalled(t) /\ code \in RecognizedCodes
                => /\ TVMinutes(handler[t].interval) = YFMinutes(ticker[t].interval)
                   /\ TVMinutes(handler[t].interval) > 0
            /\ \A a, b \in RecognizedCodes :
                   a # b => /\ interval_map(a) # interval_map(b)
                            /\ interval_tv_map(a) # interval_tv_map(b)
                            /\ yf_interval_map(a) # yf_interval_map(b)
                            /\ interval_map(a) = interval_tv_map(a)

\* a historical request of an unrecognized code has called both providers
\* with the 1-hour interval
C11_Witness ==
    /\ mode[MainThread] = "get-historical-with-levels"
    /\ request[MainThread].interval = "2H"
    /\ pc[MainThread] = "fetched"
    /\ handler[MainThread].interval = "INTERVAL_1_HOUR"
    /\ ticker[MainThread].interval = "1h"


\* C12: in the historical-with-levels mode an empty table makes line 212
\* raise the not-found error (status 404), and that error reaches the
\* client as it is: the request ends with status 404, never 500.
C12_NotFoundKept ==
    [][\A t \in {MainThread} :
          /\ (mode[t] = "get-historical-with-levels" /\ pc[t] = "levels"
                  /\ Len(df[t]) = 0 /\ pc'[t] # pc[t])
                 => /\ pc'[t] = "http_raised"
                    /\ exc'[t].type = "HTTPException"
                    /\ exc'[t].status = 404
          /\ (pc[t] = "http_raised" /\ exc[t].status = 404 /\ pc'[t] # pc[t])
                 => /\ pc'[t] = "idle"
                    /\ ~response'[t].success
                    /\ response'[t].status = 404
                    /\ response'[t].detail = exc[t].detail]_vars

\* a request whose table was empty was answered with status 404
C12_Witness ==
    /\ mode[MainThread] = "get-historical-with-levels"
    /\ pc[MainThread] = "idle"
    /\ response[MainThread].status = 404
    /\ response[MainThread].detail[1] = "No data found for "


\* C13: for every non-empty candle sequence period_high is the greatest high
\* and period_low the least low of the whole sequence, and period_range is
\* period_high - period_low and is not negative; the ten candles with highs
\* 10, 11, 9, 12, 8, 13, 7, 14, 6, 15 and each low 1 below its high give
\* period_high = 15, period_low = 5, period_range = 10.
C13_PeriodExtremes ==
    \A t \in {MainThread} :
        HistoricalAnswered(t)
            => LET d == response[t].data
                   lv == d.price_action_levels
                   n == Len(d.candles)
               IN  /\ n > 0
                   /\ lv.period_high \in Highs(d.candles)
                   /\ \A h \in Highs(d.candles) : h <= lv.period_high
                   /\ lv.period_low \in Lows(d.candles)
                   /\ \A l \in Lows(d.candles) : lv.period_low <= l
                   /\ lv.period_range = lv.period_high - lv.period_low
                   /\ lv.period_range >= 0
                   /\ (/\ n = 10
                       /\ \A k \in 1..n :
                              /\ d.candles[k].High
                                     = <<10, 11, 9, 12, 8, 13, 7, 14, 6, 15>>[k]
                              /\ d.candles[k].Low = d.candles[k].High - 1)
                          => /\ lv.period_high = 15
                             /\ lv.period_low = 5
                             /\ lv.period_range = 10

\* the ten candles of the example were answered, with the levels 15, 5, 10
C13_Witness ==
    /\ HistoricalAnswered(MainThread)
    /\ response[MainThread].data.candles = CanonicalFrame
    /\ response[MainThread].data.price_action_levels.period_high = 15
    /\ response[MainThread].data.price_action_levels.period_low = 5
    /\ response[MainThread].data.price_action_levels.period_range = 10


\* thread t has answered the request it received last
Answered(t) == pc[t] = "idle" /\ mode[t] # None

\* C14: when an endpoint returns or fails, the request it received has the
\* symbol, exchange, screener, interval and lookback_days it had at entry.
C14_QueryUnchanged ==
    \A t \in {MainThread} : Answered(t) => request[t] = entry[t]


\* the number of fetches that ended with a snapshot among the first k entries
\* of a log
RECURSIVE FetchedBefore(_, _)
FetchedBefore(events, k) ==
    IF k = 0 THEN 0
    ELSE FetchedBefore(events, k - 1)
             + (IF events[k].event = "fetched" THEN 1 ELSE 0)

\* C15: the multi-timeframe mode fetches 1h, then 15m, then 5m, each fetch
\* with all its retries ending before the next begins; a pause of 1 second
\* follows the 1h fetch and the 15m fetch and none the 5m fetch; each entry
\* of the result has as its timeframe the code it is stored under.
C15_OrderedTimeframes ==
    \A t \in {MainThread} :
        mode[t] = "get-multi-timeframe"
            => LET events == log[t]
                   n == Len(events)
                   codes == <<"1H", "15M", "5M">>
                   intervals == <<"INTERVAL_1_HOUR", "INTERVAL_15_MINUTES",
                                  "INTERVAL_5_MINUTES">>
               IN  /\ \A k \in 1..n :
                          LET e == events[k]
                              stage == FetchedBefore(events, k - 1) + 1
                          IN  /\ e.event \in {"dispatch", "fetched", "failed", "pause"}
                              /\ e.event = "dispatch"
                                     => /\ stage <= 3
                                        /\ e.timeframe = intervals[stage]
                                        /\ k > 1 => events[k - 1].event
                                                        \in {"dispatch", "pause"}
                              /\ e.event = "fetched"
                                     => /\ e.timeframe = codes[stage]
                                        /\ events[k - 1].event = "dispatch"
                                        /\ k < n =>
                                               /\ stage < 3
                                               /\ events[k + 1].event = "pause"
                              /\ e.event = "pause"
                                     => /\ e.ms = 1000
                                        /\ events[k - 1].event = "fetched"
                                        /\ events[k - 1].timeframe \in {"1H", "15M"}
                              /\ e.event = "failed" => k = n
                   /\ pc[t] = "multi_sleep" => events[n].event = "pause"
                   /\ \A key \in DOMAIN result[t] : result[t][key].timeframe = key
                   /\ MultiAnswered(t) /\ response[t].success
                          => /\ events[n] = Event("fetched", "5M", 0)
                             /\ DOMAIN response[t].data = {"1H", "15M", "5M"}
                             /\ \A key \in DOMAIN response[t].data :
                                    response[t].data[key].timeframe = key

\* all three timeframes were fetched and answered, one of them at its
\* second attempt
C15_Witness ==
    /\ MultiAnswered(MainThread)
    /\ response[MainThread].success
    /\ Len(log[MainThread]) = 9
    /\ log[MainThread][4].event = "dispatch"
    /\ log[MainThread][5].event = "dispatch"


\* C16: rate_limit leaves in last_request_time the clock as it is after the
\* pacing sleep (line 42 reads the clock again), so with one thread every
\* write of last_request_time is the present instant, never lowers it, and
\* puts it at least 500 ms above the value it had.
C16_WriteAfterSleep ==
    [][\A t \in {MainThread} :
          /\ last_request_time' >= last_request_time
          /\ (pc[t] = "rate_limit_write" /\ pc'[t] # pc[t])
                 => /\ last_request_time' = now
                    /\ last_request_time' >= last_request_time + 500
          /\ last_request_time' # last_request_time
                 => pc[t] = "rate_limit_write"]_vars

\* a second call of rate_limit has written, 500 ms after the call before it
C16_Witness ==
    /\ pc[MainThread] = "dispatch"
    /\ lastDispatch >= StartTime
    /\ last_request_time = now
    /\ last_request_time = lastDispatch + 500


\* the number of calls of the live-indicator provider in a log
DispatchCount(events) ==
    Cardinality({k \in 1..Len(events) : events[k].event = "dispatch"})

\* C17: a /get-data request and a /get-historical-with-levels request call
\* the live-indicator provider at most 3 times, a /get-multi-timeframe
\* request at most 9 times, and once a fetch has failed the request makes no
\* further call.
C17_BoundedDispatches ==
    \A t \in {MainThread} :
        LET events == log[t]
        IN  /\ mode[t] = "get-data" => DispatchCount(events) <= 3
            /\ mode[t] = "get-historical-with-levels" => DispatchCount(events) <= 3
            /\ mode[t] = "get-multi-timeframe" => DispatchCount(events) <= 9
            /\ \A k \in 1..Len(events) :
                   events[k].event = "failed"
                       => /\ k = Len(events)
                          /\ pc[t] \in {"fetch_raised", "multi_except", "idle"}
            /\ (Answered(t) /\ response[t].success /\ mode[t] = "get-multi-timeframe")
                   => DispatchCount(events) >= 3

\* a /get-multi-timeframe request was answered after 9 calls of the provider
C17_Witness ==
    /\ MultiAnswered(MainThread)
    /\ DispatchCount(log[MainThread]) = 9


C19_NotImplementedKept ==
    [][\A t \in {MainThread} :
          /\ (pc[t] = "historical" /\ pc'[t] \notin {"historical", "history"})
                 => /\ pc'[t] = "http_raised"
                    /\ exc'[t].type = "HTTPException"
                    /\ exc'[t].status = 501
                    /\ log'[t] = <<>>
                    /\ ticker'[t] = NoTicker
                    /\ handler'[t] = NoHandler
          /\ (pc[t] = "http_raised" /\ exc[t].status = 501 /\ pc'[t] # pc[t])
                 => /\ pc'[t] = "idle"
                    /\ ~response'[t].success
                    /\ response'[t].status = 501
                    /\ response'[t].detail = exc[t].detail
                    /\ log'[t] = <<>>
          /\ (mode[t] = "get-historical-with-levels" /\ pc'[t] = "idle"
                  /\ pc[t] # "idle" /\ log[t] = <<>>)
                 => response'[t].status = 501]_vars

\* a request was answered with status 501 and no provider was called
C19_Witness ==
    /\ mode[MainThread] = "get-historical-with-levels"
    /\ pc[MainThread] = "idle"
    /\ response[MainThread].status = 501
    /\ log[MainThread] = <<>>


\* C20: in the historical-with-levels mode the historical provider is called
\* before the live-indicator provider; a request that ends in the not-found
\* error (404) or the not-implemented error (501) has made no call of the
\* live-indicator provider, and none of its steps changes last_request_time.
C20_HistoryFirst ==
    [][\A t \in {MainThread} :
          mode[t] = "get-historical-with-levels"
              => /\ \A k \in 1..Len(log[t]) :
                        log[t][k].event = "dispatch"
                            => k > 1 /\ log[t][1].event = "history"
                 /\ pc[t] \in {"historical", "history", "levels", "http_raised"}
                        => /\ last_request_time' = last_request_time
                           /\ lastDispatch' = lastDispatch
                           /\ DispatchCount(log[t]) = 0
                 /\ (pc'[t] = "http_raised" /\ pc[t] # "http_raised")
                        => pc[t] \in {"historical", "levels"}
                 /\ (pc'[t] = "idle" /\ pc[t] # "idle"
                         /\ response'[t].status \in {404, 501})
                        => /\ pc[t] = "http_raised"
                           /\ DispatchCount(log'[t]) = 0]_vars

\* after a request that called the live-indicator provider, a request ended
\* in the not-found error with the provider's last call and
\* last_request_time as they were
C20_Witness ==
    /\ mode[MainThread] = "get-historical-with-levels"
    /\ pc[MainThread] = "idle"
    /\ response[MainThread].status = 404
    /\ log[MainThread] = <<Event("history", "4h", 0)>>
    /\ last_request_time >= StartTime
    /\ lastDispatch = last_request_time

====
